---- MODULE Spec2Model ----
(***************************************************************************)
(* plot_raspshake_event_waveforms_rays.py as a state machine.              *)
(*                                                                         *)
(* The script is one straight line of statements.  pc names the statement  *)
(* group that runs next; an uncaught Python exception ends the run         *)
(* (pc = "aborted").  The waveform service, the ObsPy stream operations,   *)
(* the TauP solver and matplotlib are external: what they return is drawn  *)
(* from small sets, and every call into them may raise.                    *)
(*                                                                         *)
(* Times are whole seconds and the sampling interval of the trace is one   *)
(* second, so a trace from start to end holds end - start + 1 samples.     *)
(* Sample values are not modelled: a trace carries its extent, whether it  *)
(* holds masked (missing) samples, and the list of operations applied.     *)
(***************************************************************************)
EXTENDS Integers, Sequences, FiniteSets, TLC

(* ------------------------------ bounds -------------------------------- *)

\* largest value of T_START and T_END that is tried (seconds)
MaxOffset == 2
\* most sample runs in one answer of the waveform service
MaxRuns == 2
\* how many samples outside the requested window the service may return
Slack == 1
\* longest PHASES list that is tried
MaxPhases == 2
\* travel times are drawn from 1..MaxTime
MaxTime == 2

(* ------------------------------ helpers ------------------------------- *)

Max(a, b) == IF a >= b THEN a ELSE b

Min(a, b) == IF a <= b THEN a ELSE b

Range(s) == {s[k] : k \in DOMAIN s}

SeqsUpTo(S, n) == UNION {[1..k -> S] : k \in 0..n}

\* the increasing sequence of the members of a finite set of integers
RECURSIVE SortedSeq(_)
SortedSeq(S) ==
    IF S = {} THEN <<>>
    ELSE LET m == CHOOSE x \in S : \A y \in S : x <= y
         IN  <<m>> \o SortedSeq(S \ {m})

(* --------------------------- configuration ---------------------------- *)

\* lines 21-36: the values the source ships with, on the model's scale
PHASES == <<"P", "S">>

LABEL == "M 6.4 Puerto Rico"

MODEL == "iasp91"

PhaseNames == Range(PHASES)

EQ_TIME == [day |-> 6, hour |-> 8, minute |-> 24, second |-> 26]

BaseConfig ==
    [EQ_TIME |-> EQ_TIME, T_START |-> 0, T_END |-> MaxOffset,
     PHASES |-> PHASES, EVT_LAT |-> 0, EVT_LON |-> -90, EVT_Z |-> 10,
     STA_LAT |-> 90, STA_LON |-> 0, MODEL |-> MODEL]

\* every arrival list the solver can answer with: sorted by time
ArrivalLists == {SortedSeq(S) : S \in SUBSET (1..MaxTime)}

BaseArrivals == [p \in PhaseNames |-> SortedSeq(1..MaxTime)]

\* UTCDateTime(EQ_TIME): the timestamp as seconds since the epoch day
UTCDateTime(ts) ==
    ((ts.day * 24 + ts.hour) * 60 + ts.minute) * 60 + ts.second

Run(s, e) == [start |-> s, end |-> e, masked |-> FALSE, processing |-> <<>>]

\* a service that holds one unbroken run around every window that is tried
FullArchive == <<Run(0, UTCDateTime([EQ_TIME EXCEPT !.day = @ + 1]))>>

\* services that hold up to MaxRuns runs around the window of BaseConfig,
\* in time order and not overlapping
GapArchives ==
    LET lo == UTCDateTime(EQ_TIME) - Slack
        hi == UTCDateTime(EQ_TIME) + MaxOffset + Slack
        Ordered(f, n) ==
            /\ \A k \in 1..n : f[2 * k - 1] <= f[2 * k]
            /\ \A k \in 1..(n - 1) : f[2 * k] < f[2 * k + 1]
    IN  UNION {{[k \in 1..n |-> Run(f[2 * k - 1], f[2 * k])] :
                    f \in {g \in [1..(2 * n) -> lo..hi] : Ordered(g, n)}} :
               n \in 1..MaxRuns}

Offsets == (-1)..MaxOffset

Origins == {EQ_TIME, [day |-> 0, hour |-> 23, minute |-> 59, second |-> 59]}

WindowInputs ==
    {[cfg |-> [BaseConfig EXCEPT !.EQ_TIME = o, !.T_START = a, !.T_END = b],
      arrivals |-> BaseArrivals, archive |-> FullArchive] :
        o \in Origins, a \in Offsets, b \in Offsets}

DataInputs ==
    {[cfg |-> BaseConfig, arrivals |-> BaseArrivals, archive |-> runs] :
        runs \in GapArchives}

PhaseInputs ==
    {[cfg |-> [BaseConfig EXCEPT !.PHASES = ps], arrivals |-> tab,
      archive |-> FullArchive] :
        ps \in SeqsUpTo(PhaseNames, MaxPhases),
        tab \in [PhaseNames -> ArrivalLists]}

Latitudes == {-90, 0, 90}

Longitudes == {-90, 0, 90, 180}

GeoInputs ==
    {[cfg |-> [BaseConfig EXCEPT !.EVT_LAT = la, !.EVT_LON = lo,
                                 !.STA_LAT = sa, !.EVT_Z = z,
                                 !.MODEL = m],
      arrivals |-> BaseArrivals, archive |-> FullArchive] :
        la \in Latitudes, lo \in Longitudes, sa \in Latitudes,
        z \in {0, 10}, m \in {MODEL, "ak135"}}

Inputs == WindowInputs \cup DataInputs \cup PhaseInputs \cup GeoInputs

(* ------------------------------ state --------------------------------- *)

VARIABLES
    cfg,        \* the module-level parameters, lines 21-36
    arrivalsOf, \* the TauP solver's answer per phase at this run's geometry
    archive,    \* the sample runs the waveform service holds for the channel
    pc,         \* the statement group that runs next
    log,        \* the statement groups run so far, each with its outcome
    orig_time, t1, t2,  \* lines 43-45
    requests,   \* the get_waveforms calls issued to the service
    trims,      \* the windows Stream.trim was called with
    st,         \* the Stream: a sequence of traces
    suptitle,   \* line 57
    dist, model,        \* lines 61-62
    plotted,    \* the curve on the left panel, <<>> until line 65 ran
    ylim,       \* line 67
    i,          \* position of the for loop of line 70 in PHASES
    phase,      \* the loop variable; <<>> while the name is unbound
    queries,    \* the calls made to the TauP model
    markers, labels,    \* lines 75-78
    axisTitle,  \* line 80
    rays, raysTitle,    \* lines 90-92
    saved, shown        \* lines 96-97

vars == <<cfg, arrivalsOf, archive, pc, log, orig_time, t1, t2, requests, trims, st,
          suptitle,
          dist, model, plotted, ylim, i, phase, queries, markers, labels,
          axisTitle, rays, raysTitle, saved, shown>>

(* ------------------------- the statement order ------------------------ *)

\* the statement groups of the script, in the order the file lists them
Steps ==
    <<"client", "window", "get_waveforms", "merge", "detrend",
      "remove_response", "filter", "trim", "figure", "taup", "plot",
      "phases", "labels", "rays", "save", "show">>

StepAfterReordered(step) ==
    CASE step = "remove_response" -> "trim"
      [] step = "trim" -> "filter"
      [] step = "filter" -> "figure"
      [] OTHER ->
            IF \E k \in 1..(Len(Steps) - 1) : Steps[k] = step
            THEN Steps[(CHOOSE k \in 1..(Len(Steps) - 1) : Steps[k] = step) + 1]
            ELSE "done"

\* the statement group that follows `step` when it returns normally
StepAfter(step) ==
    IF \E k \in 1..(Len(Steps) - 1) : Steps[k] = step
    THEN Steps[(CHOOSE k \in 1..(Len(Steps) - 1) : Steps[k] = step) + 1]
    ELSE "done"

RaiseSwallowed(step) == StepAfter(step)

\* where control goes when `step` raises: nothing in the script catches
\* an exception, so the interpreter ends the run
Raise(step) == "aborted"

Done(step) ==
    /\ log' = Append(log, [stage |-> step, ok |-> TRUE])
    /\ pc' = StepAfter(step)

Fail(step) ==
    /\ log' = Append(log, [stage |-> step, ok |-> FALSE])
    /\ pc' = Raise(step)

(* ----------------------------- time window ---------------------------- *)

WindowStart(origin, pre) == origin - pre

WindowEndMirrored(origin, post) == origin - post

WindowEnd(origin, post) == origin + post

(* --------------------------- waveform service ------------------------- *)

\* what the service answers to a request for [a, b]: the runs it holds that
\* reach into the window, each cut to at most Slack samples outside of it
Response(a, b) ==
    LET InWindow(r) == r.start <= b /\ r.end >= a
        Cut(r) == [r EXCEPT !.start = Max(r.start, a - Slack),
                            !.end = Min(r.end, b + Slack)]
        hit == SelectSeq(archive, InWindow)
    IN  [k \in DOMAIN hit |-> Cut(hit[k])]

Apply(tr, op) == [tr EXCEPT !.processing = Append(@, op)]

\* Stream.merge() with its defaults (method=0, fill_value=None): the runs
\* of one channel become one trace; samples missing between two runs are
\* masked
Merge(stream) ==
    IF stream = <<>> THEN <<>>
    ELSE <<[start |-> stream[1].start,
            end |-> stream[Len(stream)].end,
            masked |-> \E k \in 1..(Len(stream) - 1) :
                            stream[k + 1].start > stream[k].end + 1,
            processing |-> <<"merge">>]>>

TrimPadded(tr, a, b) ==
    [Apply(tr, "trim") EXCEPT !.start = a, !.end = b]

\* Trace.trim(t1, t2) with pad=False: samples outside [a, b] are dropped,
\* none are added
Trim(tr, a, b) ==
    [Apply(tr, "trim") EXCEPT !.start = Max(tr.start, a),
                               !.end = Min(tr.end, b)]

Npts(tr) == tr.end - tr.start + 1

(* ------------------------------ geometry ------------------------------ *)

\* cosine and sine of a multiple of 90 degrees
Cos90(d) ==
    LET r == d % 360
    IN  IF r = 0 THEN 1 ELSE IF r = 180 THEN -1 ELSE 0

Sin90(d) == Cos90(d - 90)

\* locations2degrees on points whose coordinates are multiples of 90
\* degrees: the angle between the two unit vectors
Locations2Degrees(lat1, lon1, lat2, lon2) ==
    LET dot == Cos90(lat1) * Cos90(lon1) * Cos90(lat2) * Cos90(lon2)
               + Cos90(lat1) * Sin90(lon1) * Cos90(lat2) * Sin90(lon2)
               + Sin90(lat1) * Sin90(lat2)
    IN  IF dot >= 1 THEN 0 ELSE IF dot <= -1 THEN 180 ELSE 90

(* ------------------------------ TauP model ---------------------------- *)

TravelTimeQuery(ph) ==
    [call |-> "get_travel_times", depth |-> cfg.EVT_Z, distance |-> dist,
     phases |-> ph, model |-> model]

RayPathQueryAtSurface ==
    [call |-> "get_ray_paths", depth |-> 0, distance |-> dist + 1,
     phases |-> cfg.PHASES, model |-> model]

RayPathQuery ==
    [call |-> "get_ray_paths", depth |-> cfg.EVT_Z, distance |-> dist,
     phases |-> cfg.PHASES, model |-> model]

\* the solver's answer to a query: the arrivals of the listed phases that
\* exist, each with its phase name, sorted by time
RECURSIVE ArrivalsFor(_)
ArrivalsFor(ph) ==
    IF ph = <<>> THEN <<>>
    ELSE [k \in DOMAIN arrivalsOf[Head(ph)] |->
              [name |-> Head(ph), time |-> arrivalsOf[Head(ph)][k]]]
         \o ArrivalsFor(Tail(ph))

LastArrival(tt) == tt[Len(tt)]

\* tt[0]
FirstArrival(tt) == tt[1]

\* the filter plot_rays is called with: the name `phase` as the loop of
\* line 70 left it
RayPhaseFilter == phase

\* the phases whose rays plot_rays draws: those of the arrivals whose name
\* is in the phase list it was given
PlotRays(arrivals, phase_list) ==
    {arrivals[k].name : k \in DOMAIN arrivals} \cap Range(phase_list)

(* ------------------------------- actions ------------------------------ *)

Init ==
    /\ \E inp \in Inputs :
          cfg = inp.cfg /\ arrivalsOf = inp.arrivals /\ archive = inp.archive
    /\ pc = "client"
    /\ log = <<>>
    /\ orig_time = 0 /\ t1 = 0 /\ t2 = 0
    /\ requests = <<>>
    /\ trims = <<>>
    /\ st = <<>>
    /\ suptitle = ""
    /\ dist = 0 /\ model = ""
    /\ plotted = <<>>
    /\ ylim = <<>>
    /\ i = 1
    /\ phase = <<>>
    /\ queries = <<>>
    /\ markers = <<>> /\ labels = <<>>
    /\ axisTitle = <<>>
    /\ rays = {} /\ raysTitle = <<>>
    /\ saved = FALSE /\ shown = FALSE

windowVars == <<orig_time, t1, t2>>
dataVars == <<requests, trims, st>>
taupVars == <<dist, model, queries>>
leftVars == <<plotted, ylim, i, phase, markers, labels, axisTitle>>
rightVars == <<rays, raysTitle>>
outVars == <<suptitle, saved, shown>>
inputVars == <<cfg, arrivalsOf, archive>>

\* line 40: Client(url) asks the service which endpoints it offers
CreateClient ==
    /\ pc = "client"
    /\ \/ Done("client")
       \/ Fail("client")
    /\ UNCHANGED <<inputVars, windowVars, dataVars, taupVars, leftVars,
                   rightVars, outVars>>

\* lines 43-45
ResolveWindow ==
    /\ pc = "window"
    /\ orig_time' = UTCDateTime(cfg.EQ_TIME)
    /\ t1' = WindowStart(orig_time', cfg.T_START)
    /\ t2' = WindowEnd(orig_time', cfg.T_END)
    /\ Done("window")
    /\ UNCHANGED <<inputVars, dataVars, taupVars, leftVars, rightVars,
                   outVars>>

\* lines 47-48: one request; the service answers with data only for a
\* window that ends after it starts and that it holds samples for
GetWaveforms ==
    /\ pc = "get_waveforms"
    /\ requests' = Append(requests, [starttime |-> t1, endtime |-> t2])
    /\ \/ /\ t1 < t2
          /\ Response(t1, t2) # <<>>
          /\ st' = Response(t1, t2)
          /\ Done("get_waveforms")
       \/ /\ st' = st
          /\ Fail("get_waveforms")
    /\ UNCHANGED <<inputVars, windowVars, trims, taupVars, leftVars, rightVars,
                   outVars>>

\* line 49
MergeStream ==
    /\ pc = "merge"
    /\ \/ st' = Merge(st) /\ Done("merge")
       \/ st' = st /\ Fail("merge")
    /\ UNCHANGED <<inputVars, windowVars, requests, trims, taupVars,
                   leftVars, rightVars, outVars>>

\* the ObsPy calls that refuse a trace with masked samples
RaisesIfMasked(step) == step = "filter"

\* lines 50-52: one ObsPy call on every trace of the stream
Condition(step) ==
    /\ pc = step
    /\ \/ /\ RaisesIfMasked(step) => \A k \in DOMAIN st : ~st[k].masked
          /\ st' = [k \in DOMAIN st |-> Apply(st[k], step)]
          /\ Done(step)
       \/ st' = st /\ Fail(step)
    /\ UNCHANGED <<inputVars, windowVars, requests, trims, taupVars,
                   leftVars, rightVars, outVars>>

Detrend == Condition("detrend")

RemoveResponse == Condition("remove_response")

Filter == Condition("filter")

\* line 53: trim raises when the window is reversed
TrimStream ==
    /\ pc = "trim"
    /\ trims' = Append(trims, [starttime |-> t1, endtime |-> t2])
    /\ \/ /\ t1 <= t2
          /\ st' = [k \in DOMAIN st |-> Trim(st[k], t1, t2)]
          /\ Done("trim")
       \/ st' = st /\ Fail("trim")
    /\ UNCHANGED <<inputVars, windowVars, requests, taupVars,
                   leftVars, rightVars, outVars>>

\* lines 56-58
SetupFigure ==
    /\ pc = "figure"
    /\ \/ suptitle' = LABEL /\ Done("figure")
       \/ suptitle' = suptitle /\ Fail("figure")
    /\ UNCHANGED <<inputVars, windowVars, dataVars, taupVars, leftVars,
                   rightVars, saved, shown>>

\* lines 61-62
SetupTaup ==
    /\ pc = "taup"
    /\ dist' = Locations2Degrees(cfg.EVT_LAT, cfg.EVT_LON,
                                 cfg.STA_LAT, cfg.STA_LON)
    /\ \/ model' = cfg.MODEL /\ Done("taup")
       \/ model' = model /\ Fail("taup")
    /\ UNCHANGED <<inputVars, windowVars, dataVars, queries, leftVars,
                   rightVars, outVars>>

\* the for statement of line 70 at position k: another pass, or fall through
LoopOrExit(k) ==
    IF k <= Len(cfg.PHASES) THEN "phases" ELSE StepAfter("phases")

\* lines 65-67: st[0] against times(reftime=orig_time); st[0] raises on an
\* empty stream
PlotWaveform ==
    /\ pc = "plot"
    /\ \/ /\ st # <<>>
          /\ plotted' = <<[reftime |-> orig_time,
                           first |-> st[1].start - orig_time,
                           last |-> st[1].end - orig_time,
                           npts |-> Npts(st[1]),
                           masked |-> st[1].masked,
                           processing |-> st[1].processing]>>
          /\ ylim' = [ymin |-> "ymin", ymax |-> "ymax"]
          /\ log' = Append(log, [stage |-> "plot", ok |-> TRUE])
          /\ pc' = IF StepAfter("plot") = "phases" THEN LoopOrExit(i)
                   ELSE StepAfter("plot")
       \/ /\ UNCHANGED <<plotted, ylim>>
          /\ Fail("plot")
    /\ UNCHANGED <<inputVars, windowVars, dataVars, taupVars, i, phase,
                   markers, labels, axisTitle, rightVars, outVars>>

\* lines 70-78, one pass of the loop: tt[0] raises IndexError when the
\* solver returned no arrival for the phase
AnnotatePhase ==
    /\ pc = "phases"
    /\ i <= Len(cfg.PHASES)
    /\ phase' = <<cfg.PHASES[i]>>
    /\ queries' = Append(queries, TravelTimeQuery(phase'))
    /\ LET tt == ArrivalsFor(phase')
       IN  IF tt = <<>>
           THEN /\ Fail("phases")
                /\ UNCHANGED <<i, markers, labels>>
           ELSE /\ markers' = Append(markers,
                        [x |-> FirstArrival(tt).time, ymin |-> ylim.ymin,
                         ymax |-> ylim.ymax, phase |-> phase'[1]])
                /\ labels' = Append(labels,
                        [x100 |-> FirstArrival(tt).time * 102,
                         y |-> ylim.ymax, text |-> phase'[1]])
                /\ i' = i + 1
                /\ log' = Append(log, [stage |-> "phases", ok |-> TRUE])
                /\ pc' = LoopOrExit(i')
    /\ UNCHANGED <<inputVars, windowVars, dataVars, dist, model, plotted,
                   ylim, axisTitle, rightVars, outVars>>

\* lines 79-83
LabelAxes ==
    /\ pc = "labels"
    /\ axisTitle' = <<"AM", "RAEBE", "00", "EHZ", "0.3", "0.7">>
    /\ Done("labels")
    /\ UNCHANGED <<inputVars, windowVars, dataVars, taupVars, plotted, ylim,
                   i, phase, markers, labels, rightVars, outVars>>

\* lines 86-92: the name `phase` is unbound when the loop never ran, and
\* plot_rays raises when it is handed no arrival
DrawRays ==
    /\ pc = "rays"
    /\ queries' = Append(queries, RayPathQuery)
    /\ LET arrivals == ArrivalsFor(queries'[Len(queries')].phases)
       IN  \/ /\ RayPhaseFilter # <<>>
              /\ arrivals # <<>>
              /\ rays' = PlotRays(arrivals, RayPhaseFilter)
              /\ raysTitle' = <<"Epicentral distance", dist * 10>>
              /\ Done("rays")
           \/ /\ UNCHANGED rightVars
              /\ Fail("rays")
    /\ UNCHANGED <<inputVars, windowVars, dataVars, dist, model, leftVars,
                   outVars>>

\* lines 95-96
SaveFigure ==
    /\ pc = "save"
    /\ \/ saved' = TRUE /\ Done("save")
       \/ saved' = saved /\ Fail("save")
    /\ UNCHANGED <<inputVars, windowVars, dataVars, taupVars, leftVars,
                   rightVars, suptitle, shown>>

\* line 97
Show ==
    /\ pc = "show"
    /\ \/ shown' = TRUE /\ Done("show")
       \/ shown' = shown /\ Fail("show")
    /\ UNCHANGED <<inputVars, windowVars, dataVars, taupVars, leftVars,
                   rightVars, suptitle, saved>>

Next ==
    \/ CreateClient
    \/ ResolveWindow
    \/ GetWaveforms
    \/ MergeStream
    \/ Detrend
    \/ RemoveResponse
    \/ Filter
    \/ TrimStream
    \/ SetupFigure
    \/ SetupTaup
    \/ PlotWaveform
    \/ AnnotatePhase
    \/ LabelAxes
    \/ DrawRays
    \/ SaveFigure
    \/ Show

Spec == Init /\ [][Next]_vars

(* ------------------------------- claims ------------------------------- *)

\* the statement group `stage` has run and returned normally
Ran(stage) == \E k \in DOMAIN log : log[k].stage = stage /\ log[k].ok

Stages(l) == [k \in DOMAIN l |-> l[k].stage]

IsPrefix(a, b) == Len(a) <= Len(b) /\ \A k \in DOMAIN a : a[k] = b[k]

Exists(p) == arrivalsOf[p] # <<>>

\* the requested phases that have an arrival, in request order
ExistingPhases == SelectSeq(cfg.PHASES, Exists)

\* C1: a requested phase for which the solver returns no arrival is left
\* out and the loop goes on: the run never ends in the annotation loop on a
\* phase without arrival.
C1_MissingPhaseNeverAborts ==
    ~(/\ pc = "aborted"
      /\ log[Len(log)].stage = "phases"
      /\ phase # <<>>
      /\ ~Exists(phase[1]))

\* C2: once the right panel is drawn, the phases whose rays it shows are
\* all the requested phases that have an arrival.
C2_AllRequestedRaysDrawn ==
    Ran("rays") => rays = Range(ExistingPhases)

ConditioningOrder ==
    <<"get_waveforms", "merge", "detrend", "remove_response", "filter",
      "trim">>

IsConditioning(e) == e.stage \in Range(ConditioningOrder)

\* C3: acquisition, merge, de-mean, response removal, band-pass and trim
\* run in this order, each once and each after the one before completed,
\* and nothing of the figure reads the trace before the trim completed.
C3_ConditioningInOrder ==
    /\ IsPrefix(Stages(SelectSeq(log, IsConditioning)), ConditioningOrder)
    /\ \A k \in DOMAIN log :
          (IsConditioning(log[k]) /\ k < Len(log)) => log[k].ok
    /\ \A k \in DOMAIN st :
          IsPrefix(st[k].processing, Tail(ConditioningOrder))
    /\ \A k \in DOMAIN log :
          log[k].stage \in {"plot", "labels"} =>
              \E j \in 1..(k - 1) : log[j].stage = "trim" /\ log[j].ok
    /\ plotted # <<>> => plotted[1].processing = Tail(ConditioningOrder)

C3_Witness ==
    /\ plotted # <<>>
    /\ saved
    /\ Len(SelectSeq(log, IsConditioning)) = Len(ConditioningOrder)

\* the statement groups a run has gone through when the figure is written
StagesBeforeSave ==
    SubSeq(Steps, 1, 11)
    \o [k \in 1..Len(cfg.PHASES) |-> "phases"]
    \o <<"labels", "rays", "save">>

\* C4: a stage that fails ends the run there: nothing runs after it and
\* the figure is not shown; when the stage comes before the save, the
\* figure is not written either.  No stage is run twice, and the figure is
\* written only after every stage before the save succeeded.
C4_FailureAborts ==
    /\ \A k \in DOMAIN log :
          ~log[k].ok => /\ k = Len(log)
                        /\ pc = "aborted"
                        /\ log[k].stage # "show" => ~saved
                        /\ ~shown
    /\ pc = "aborted" => log # <<>> /\ ~log[Len(log)].ok
    /\ \A j, k \in DOMAIN log :
          (j < k /\ log[j].stage = log[k].stage) => log[j].stage = "phases"
    /\ Len(SelectSeq(log, LAMBDA e : e.stage = "phases")) <= Len(cfg.PHASES)
    /\ saved => /\ IsPrefix(StagesBeforeSave, Stages(log))
                /\ \A k \in DOMAIN StagesBeforeSave : log[k].ok
    /\ shown => saved /\ \A k \in DOMAIN log : log[k].ok

C4_Witness ==
    /\ pc = "aborted"
    /\ log[Len(log)].stage = "rays"
    /\ Ran("plot")
    /\ ~saved

\* C5: de-meaning, response removal, filtering and plotting are reached
\* only with one trace that has no gap; a stream that merge leaves with a
\* gap ends the run before them.
C5_ConditioningOnlyGapFree ==
    pc \in {"detrend", "remove_response", "filter", "trim", "plot"} =>
        Len(st) = 1 /\ ~st[1].masked

\* C6: a request goes to the waveform service only for offsets that are
\* not negative and a window that starts before it ends.
C6_RequestOnlyForValidWindow ==
    \A k \in DOMAIN requests :
        /\ cfg.T_START >= 0
        /\ cfg.T_END >= 0
        /\ cfg.T_START + cfg.T_END > 0
        /\ requests[k].starttime < requests[k].endtime

ValidOffsets ==
    cfg.T_START >= 0 /\ cfg.T_END >= 0 /\ cfg.T_START + cfg.T_END > 0

\* C7: for offsets that are not negative and not both zero, the window is
\* [origin - pre, origin + post], it lasts pre + post and holds the origin,
\* and the request and the trim are both made with that one window.
C7_WindowResolved ==
    (ValidOffsets /\ Ran("window")) =>
        /\ t1 = orig_time - cfg.T_START
        /\ t2 = orig_time + cfg.T_END
        /\ t2 - t1 = cfg.T_START + cfg.T_END
        /\ t1 <= orig_time /\ orig_time <= t2
        /\ \A k \in DOMAIN requests :
              requests[k] = [starttime |-> t1, endtime |-> t2]
        /\ \A k \in DOMAIN trims :
              trims[k] = [starttime |-> t1, endtime |-> t2]
        /\ Len(requests) <= 1 /\ Len(trims) <= 1
        /\ Ran("trim") =>
              \A k \in DOMAIN st : t1 <= st[k].start /\ st[k].end <= t2

C7_Witness ==
    /\ Ran("trim")
    /\ cfg.T_START > 0
    /\ cfg.T_END > 0
    /\ requests # <<>>
    /\ trims # <<>>

\* C8: the left panel never holds more markers than phases were requested,
\* one label per marker; the k-th marker stands at the first travel time of
\* the k-th requested phase that exists and carries its name, and once the
\* loop is over every such phase has its marker.
C8_MarkersFollowRequest ==
    /\ Len(markers) <= Len(cfg.PHASES)
    /\ Len(labels) = Len(markers)
    /\ Len(markers) <= Len(ExistingPhases)
    /\ \A k \in DOMAIN markers :
          /\ markers[k].phase = ExistingPhases[k]
          /\ markers[k].x = arrivalsOf[ExistingPhases[k]][1]
          /\ \A n \in DOMAIN arrivalsOf[ExistingPhases[k]] :
                markers[k].x <= arrivalsOf[ExistingPhases[k]][n]
          /\ labels[k].text = ExistingPhases[k]
          /\ labels[k].x100 = 102 * markers[k].x
    /\ Ran("labels") => Len(markers) = Len(ExistingPhases)

C8_Witness ==
    /\ Ran("labels")
    /\ Len(markers) = 2
    /\ markers[1].phase # markers[2].phase
    /\ \A k \in DOMAIN markers : Len(arrivalsOf[markers[k].phase]) > 1

\* C9: the trace that is plotted starts at the window's start, ends at the
\* window's end and holds (end - start) x sampling rate samples, give or
\* take one.
C9_PlottedTraceSpansWindow ==
    plotted # <<>> =>
        /\ plotted[1].first = t1 - orig_time
        /\ plotted[1].last = t2 - orig_time
        /\ plotted[1].npts >= (t2 - t1) - 1
        /\ plotted[1].npts <= (t2 - t1) + 1

\* C10: the distance is the one of the event's and the station's latitude
\* and longitude; every query of the travel-time model and the title of the
\* right panel carry that distance, the event depth and the one velocity
\* model; the curve's time axis counts from the origin time the window was
\* built from, and so do the markers.
C10_SharedGeometry ==
    /\ Ran("taup") =>
          /\ dist = Locations2Degrees(cfg.EVT_LAT, cfg.EVT_LON,
                                      cfg.STA_LAT, cfg.STA_LON)
          /\ model = cfg.MODEL
    /\ \A k \in DOMAIN queries :
          /\ Ran("taup")
          /\ queries[k].distance = dist
          /\ queries[k].depth = cfg.EVT_Z
          /\ queries[k].model = model
    /\ raysTitle # <<>> => raysTitle[2] = 10 * dist
    /\ plotted # <<>> =>
          /\ plotted[1].reftime = orig_time
          /\ orig_time = UTCDateTime(cfg.EQ_TIME)
          /\ t1 = plotted[1].reftime - cfg.T_START
    /\ \A k \in DOMAIN markers :
          markers[k].x \in Range(arrivalsOf[markers[k].phase])

C10_Witness ==
    /\ Ran("rays")
    /\ Len(queries) = 3
    /\ dist = 180
    /\ cfg.EVT_Z = 0
    /\ markers # <<>>

====
